---- MODULE Spec2Model ----
(***************************************************************************)
(* ShadowLift: the tone-mapping / reconstruction engine (processImage of   *)
(* services/imageProcessor.ts with the strategies of                       *)
(* services/toneAlgorithms), as a state machine over a per-pixel loop.     *)
(*                                                                         *)
(* Numbers.  The code computes in IEEE doubles.  Here a real number v is   *)
(* the integer round(v * ONE), ONE = 10^6 (six decimal digits), and every  *)
(* arithmetic step of the code is one fixed-point step rounded to the      *)
(* nearest unit.  Math.pow and Math.exp are computed (range reduction and  *)
(* series), not tabulated.  Values are capped at MAXV = 2000.0: the only   *)
(* quantity that can pass it is the tone-mapped target luminance, and      *)
(* every target >= 64 gives the same pixel (liftRatio is clamped to 64     *)
(* with y_base <= 1, the toe mask is 0 from 0.25 on).                      *)
(***************************************************************************)
EXTENDS Integers, Sequences, FiniteSets, TLC

\* ---------------------------------------------------------------- numbers
ONE == 1000000
MAXV == 2000000000
LN2 == 693147

Abs(x) == IF x < 0 THEN -x ELSE x
Sgn(x) == IF x < 0 THEN -1 ELSE 1
Min(a, b) == IF a < b THEN a ELSE b
Max(a, b) == IF a > b THEN a ELSE b
Sat(x) == IF x > MAXV THEN MAXV ELSE x

\* a * b of two non-negative fixed-point numbers, rounded, capped at MAXV.
\* The factors are split in thousands so that no partial product leaves
\* 32 bits.
MulN(a, b) ==
  LET ah == a \div 1000
      al == a % 1000
      bh == b \div 1000
      bl == b % 1000
  IN  IF ah > 0 /\ bh > MAXV \div ah
        THEN MAXV
        ELSE LET m1 == ah * bl
                 m2 == al * bh
                 lo == ((m1 % 1000) + (m2 % 1000) + ((al * bl) \div 1000) + 500) \div 1000
             IN  Sat(ah * bh + (m1 \div 1000) + (m2 \div 1000) + lo)

Mul(a, b) == Sgn(a) * Sgn(b) * MulN(Abs(a), Abs(b))

\* a / b, a >= 0, 0 < b <= 21.0, rounded, capped at MAXV (long division,
\* two decimal digits at a time).
DivN(a, b) ==
  LET q  == a \div b
      r0 == a % b
      d1 == (r0 * 100) \div b
      r1 == (r0 * 100) % b
      d2 == (r1 * 100) \div b
      r2 == (r1 * 100) % b
      d3 == (r2 * 100 + (b \div 2)) \div b
  IN  IF q >= 2000 THEN MAXV ELSE Sat(q * ONE + d1 * 10000 + d2 * 100 + d3)

Div(a, b) == Sgn(a) * Sgn(b) * DivN(Abs(a), Abs(b))

\* Math.log on [1/2, 2): 2 * atanh((m - 1) / (m + 1)), six terms.
LnSeries(m) ==
  LET z  == Div(m - ONE, m + ONE)
      z2 == MulN(Abs(z), Abs(z))
  IN  2 * Mul(z, ONE + MulN(z2, 333333 + MulN(z2, 200000 + MulN(z2, 142857
                + MulN(z2, 111111 + MulN(z2, 90909))))))

RECURSIVE LnR(_, _)
LnR(x, k) ==
  IF x >= 2 * ONE THEN LnR((x + 1) \div 2, k + 1)
  ELSE IF 2 * x < ONE THEN LnR(2 * x, k - 1)
  ELSE k * LN2 + LnSeries(x)

\* Math.log(x), x > 0.
Ln(x) == LnR(x, 0)

\* e^r on [0, ln 2), Taylor series to r^10 / 10!.
ExpSeries(r) ==
  ONE + MulN(r, ONE + MulN(r \div 2, ONE + MulN(r \div 3, ONE + MulN(r \div 4,
        ONE + MulN(r \div 5, ONE + MulN(r \div 6, ONE + MulN(r \div 7,
        ONE + MulN(r \div 8, ONE + MulN(r \div 9, ONE + r \div 10)))))))))

RECURSIVE Pow2(_)
Pow2(k) == IF k = 0 THEN 1 ELSE 2 * Pow2(k - 1)

\* v * 2^k, rounded, capped at MAXV.
Shift(v, k) ==
  IF k >= 0
    THEN (IF k > 11 \/ v > MAXV \div Pow2(k) THEN MAXV ELSE v * Pow2(k))
    ELSE (IF k < -30 THEN 0 ELSE (v + Pow2(-k - 1)) \div Pow2(-k))

\* Math.exp(x).
Exp(x) ==
  LET k == x \div LN2
      r == x - k * LN2
  IN  Shift(ExpSeries(r), k)

\* Math.pow(x, p) for x >= 0.  pow(x, 0) = 1, pow(x, 1) = x, pow(1, p) = 1
\* and pow(0, p > 0) = 0 are exact in IEEE arithmetic.
Pow(x, p) ==
  IF p = 0 THEN ONE
  ELSE IF p = ONE THEN x
  ELSE IF x = ONE THEN ONE
  ELSE IF x = 0 THEN (IF p > 0 THEN 0 ELSE MAXV)
  ELSE Exp(Mul(p, Ln(x)))

\* ------------------------------------------------------------ ColorSpace
clamp01(x) == Min(ONE, Max(0, x))

\* c is in [0,1]
srgbToLinear(c) ==
  IF c <= 40450 THEN Div(c, 12920000)
  ELSE Pow(Div(c + 55000, 1055000), 2400000)

\* c is linear (can be > 1 before clipping); 0.0031308 rounds to 3131 units,
\* and 1.0 / 2.4 to 416667
linearToSrgb(c) ==
  IF c <= 3131 THEN Mul(12920000, c)
  ELSE Mul(1055000, Pow(c, 416667)) - 55000

smoothstep(edge0, edge1, x) ==
  LET t == clamp01(Div(x - edge0, edge1 - edge0))
  IN  Mul(Mul(t, t), 3 * ONE - 2 * t)

\* ------------------------------------------------------ tone-curve stages
applyShadowsClassic(y_target_lin, S) ==
  LET shadowPower == ONE - Mul(S, 650000)
      y_pow       == Pow(y_target_lin, shadowPower)
      toeLift     == Mul(S, 50000)
      y_lifted    == IF S > 0
                       THEN y_pow + Mul(toeLift, Exp(Mul(-9 * ONE, y_target_lin)))
                       ELSE y_pow
      blend       == Pow(ONE - Min(ONE, y_target_lin), 3 * ONE)
  IN  Mul(y_target_lin, ONE - blend) + Mul(y_lifted, blend)

applyShadowsReview(y_target_lin, S) ==
  LET shadowPower == ONE - Mul(S, 650000)
      y_pow       == Pow(y_target_lin, shadowPower)
      toeLift     == Mul(S, 6000)
      y_lifted    == IF S > 0
                       THEN y_pow + Mul(toeLift, Exp(Mul(-25 * ONE, y_target_lin)))
                       ELSE y_pow
      yDisp       == linearToSrgb(clamp01(y_target_lin))
      blend       == Pow(ONE - yDisp, 2600000)
  IN  Mul(y_target_lin, ONE - blend) + Mul(y_lifted, blend)

applyHighlights(y_target_lin, H) ==
  IF H = 0 THEN y_target_lin
  ELSE LET highlightMask == Pow(Min(ONE, y_target_lin), 3 * ONE)
       IN  Mul(y_target_lin, ONE + Mul(Mul(H, 600000), highlightMask))

\* applyWhites from its second statement on.
applyWhitesStage(y_target_lin, W) ==
    LET yClamped         == clamp01(y_target_lin)
        highlightMask    == smoothstep(350000, ONE, yClamped)
        posHighlightMask == smoothstep(250000, ONE, yClamped)
        wideMask         == smoothstep(150000, 900000, yClamped)
        headroom         == ONE - yClamped
    IN  IF W > 0
          THEN LET whiteStrength == Mul(W, 1250000)
                   lift    == Mul(Mul(whiteStrength, 280000), wideMask)
                   base    == yClamped + lift
                   rolloff == ONE - Pow(ONE - clamp01(base),
                                        ONE + Mul(whiteStrength, 1150000))
                   blow    == Mul(Mul(whiteStrength, 700000),
                                  Pow(posHighlightMask, 1400000))
                   mapped  == rolloff + blow
               IN  Mul(base, ONE - posHighlightMask) + Mul(mapped, posHighlightMask)
          ELSE LET whiteStrength == Mul(Abs(W), 1600000)
                   whiteExponent == Div(ONE, ONE + whiteStrength)
                   mapped        == ONE - Pow(headroom, whiteExponent)
               IN  Mul(yClamped, ONE - highlightMask) + Mul(mapped, highlightMask)

\* Faulty variant of applyWhites: the early return for W = 0 is missing.
applyWhitesNoSkip(y_target_lin, W) == applyWhitesStage(y_target_lin, W)

applyWhites(y_target_lin, W) ==
  IF W = 0 THEN y_target_lin ELSE applyWhitesStage(y_target_lin, W)

\* Faulty variant of applyBlacks: the crush branch (B < 0) leaves the clamped
\* value as it is.
applyBlacksNoCrush(y_target_lin, B) ==
  IF B = 0 THEN y_target_lin ELSE clamp01(y_target_lin)

applyBlacks(y_target_lin, B) ==
  IF B = 0 THEN y_target_lin
  ELSE
    LET yClamped   == clamp01(y_target_lin)
        shadowMask == ONE - smoothstep(0, 220000, yClamped)
    IN  IF B > 0
          THEN LET blackStrength == Mul(B, 700000)
                   lift   == Mul(Mul(Mul(blackStrength, 60000), Pow(shadowMask, 1600000)),
                                 ONE - yClamped)
                   mapped == yClamped + lift
               IN  Mul(yClamped, ONE - shadowMask) + Mul(mapped, shadowMask)
          ELSE LET blackStrength == Mul(Abs(B), 1300000)
                   blackExponent == ONE + blackStrength
                   mapped        == Pow(yClamped, blackExponent)
               IN  Mul(yClamped, ONE - shadowMask) + Mul(mapped, shadowMask)

applyContrast(y_target_lin, params) ==
  IF params.C = 0 THEN y_target_lin
  ELSE IF y_target_lin <= 0 THEN y_target_lin
  ELSE Mul(params.pivotLin,
           Pow(Div(y_target_lin, params.pivotLin), params.contrastFactor))

\* Faulty variant of applyShadows: the shadow stage is skipped.
applyShadowsSkipped(variant, y_target_lin, S) == y_target_lin

\* applyShadows is the strategy's shadow stage, named by its variant.
applyShadows(variant, y_target_lin, S) ==
  IF variant = "review" THEN applyShadowsReview(y_target_lin, S)
  ELSE applyShadowsClassic(y_target_lin, S)

applyToneMap(y_base_lin, params, variant) ==
  LET yA == IF params.exposureMult # ONE
              THEN Mul(y_base_lin, params.exposureMult) ELSE y_base_lin
      yB == IF params.S # 0 THEN applyShadows(variant, yA, params.S) ELSE yA
      yC == applyHighlights(yB, params.H)
      yW == applyWhites(yC, params.W)
      yD == applyBlacks(yW, params.B)
      yE == applyContrast(yD, params)
  IN  Max(0, yE)

\* ------------------------------------------------- strategies and lookup
classicAlgorithm ==
  [kind |-> "ToneAlgorithmImpl", variant |-> "classic", postReconstruct |-> FALSE]

reviewAlgorithm ==
  [kind |-> "ToneAlgorithmImpl", variant |-> "review", postReconstruct |-> TRUE]

\* TONE_ALGORITHMS is an object literal: a property read that finds no own
\* property goes on to Object.prototype, whose members every object literal
\* inherits.  A key found nowhere reads as undefined.
ObjectPrototypeKeys ==
  {"constructor", "toString", "toLocaleString", "valueOf", "hasOwnProperty",
   "isPrototypeOf", "propertyIsEnumerable", "__proto__"}

TONE_ALGORITHMS(key) ==
  IF key = "classic" THEN classicAlgorithm
  ELSE IF key = "review" THEN reviewAlgorithm
  ELSE IF key \in ObjectPrototypeKeys
    THEN [kind |-> "ObjectPrototypeMember", variant |-> key, postReconstruct |-> FALSE]
  ELSE [kind |-> "undefined", variant |-> key, postReconstruct |-> FALSE]

\* TONE_ALGORITHMS[algorithm] ?? classicAlgorithm
getToneAlgorithm(algorithm) ==
  LET found == TONE_ALGORITHMS(algorithm)
  IN  IF found.kind = "undefined" THEN classicAlgorithm ELSE found

toneMap(impl, y_base_lin, params) == applyToneMap(y_base_lin, params, impl.variant)

toeMaskOf(impl, y_target_lin) ==
  IF impl.variant = "review"
    THEN ONE - smoothstep(0, 250000, linearToSrgb(clamp01(y_target_lin)))
    ELSE ONE - smoothstep(0, 250000, Min(ONE, y_target_lin))

Luminance(r, g, b) == Mul(212600, r) + Mul(715200, g) + Mul(72200, b)

\* reviewAlgorithm.postReconstruct: the record it leaves in `state`.
postReconstruct(state, y_target_lin, params, toeMask) ==
  LET y_out_lin == Luminance(state.r, state.g, state.b)
      fill == Mul(Mul(Max(0, y_target_lin - y_out_lin), toeMask), 800000)
      r1   == state.r + fill
      g1   == state.g + fill
      b1   == state.b + fill
      satK == Mul(Mul(Max(0, params.S), 150000), toeMask)
      yN   == Luminance(r1, g1, b1)
  IN  IF satK > 0
        THEN [r |-> Mul(r1, ONE - satK) + Mul(yN, satK),
              g |-> Mul(g1, ONE - satK) + Mul(yN, satK),
              b |-> Mul(b1, ONE - satK) + Mul(yN, satK)]
        ELSE [r |-> r1, g |-> g1, b |-> b1]

\* ------------------------------------------------------------ processImage
\* settings.exposure is kept in hundredths of a stop (the slider moves in
\* steps of 0.05), the other five controls as the integers -100..100.
ToneParams(settings) ==
  LET C == settings.contrast * 10000
  IN  [exposureMult   |-> Pow(2 * ONE, settings.exposure * 10000),
       S              |-> settings.shadows * 10000,
       H              |-> settings.highlights * 10000,
       W              |-> settings.whites * 10000,
       B              |-> settings.blacks * 10000,
       C              |-> C,
       contrastFactor |-> IF C >= 0 THEN ONE + C ELSE Div(ONE, ONE - C),
       pivotLin       |-> 180000]

\* data[i] / 255 for a byte of an image buffer
ByteToUnit(byte) == (byte * ONE + 127) \div 255

\* Faulty variant of BaseLuminance: an epsilon of 0.000001.
BaseLuminanceSmallEpsilon(rb_lin, gb_lin, bb_lin) ==
  Max(1, Luminance(rb_lin, gb_lin, bb_lin))

\* Add epsilon to prevent divide-by-zero later
BaseLuminance(rb_lin, gb_lin, bb_lin) == Max(100, Luminance(rb_lin, gb_lin, bb_lin))

\* Faulty variant of DetailWeight: the damping is not scaled by Shadows.
DetailWeightUnscaled(S, toeMask) == Max(350000, ONE - Mul(350000, toeMask))

DetailWeight(S, toeMask) ==
  LET detailDamp == Mul(Max(0, S), 350000)
  IN  Max(350000, ONE - Mul(detailDamp, toeMask))

\* Faulty variant of ToeLiftLin: no additive toe lift.
NoToeLift(S, B, toeMask) == 0

ToeLiftLin(S, B, toeMask) ==
  LET toeFromShadows == Mul(Max(0, S), 1200)
      toeFromBlacks  == Mul(Max(0, B), 2400)
  IN  Mul(toeFromShadows + toeFromBlacks, toeMask)

\* "Read Original" / "Read Base": the <<R, G, B>> bytes of a pixel, linear.
LinearPixel(p) ==
  << srgbToLinear(ByteToUnit(p[1])), srgbToLinear(ByteToUnit(p[2])),
     srgbToLinear(ByteToUnit(p[3])) >>

\* One channel of "Reconstruct": base and detail scaled by the clamped ratio,
\* blended by detailWeight, plus the toe lift.
BlendChannel(base_lin, orig_lin, clampedRatio, detailWeight, toeLiftLin) ==
  Max(0, Mul(Mul(base_lin, clampedRatio), ONE - detailWeight)
         + Mul(Mul(orig_lin, clampedRatio), detailWeight) + toeLiftLin)

\* The locals the loop body leaves, once the weights are known.
BlendPixel(o_lin, b_lin, y_base_lin, y_target_lin, liftRatio, toeMask, detailWeight, toeLiftLin) ==
  [y_base_lin   |-> y_base_lin,
   y_target_lin |-> y_target_lin,
   liftRatio    |-> liftRatio,
   toeMask      |-> toeMask,
   detailWeight |-> detailWeight,
   r_out_lin    |-> BlendChannel(b_lin[1], o_lin[1], Min(liftRatio, 64 * ONE),
                                 detailWeight, toeLiftLin),
   g_out_lin    |-> BlendChannel(b_lin[2], o_lin[2], Min(liftRatio, 64 * ONE),
                                 detailWeight, toeLiftLin),
   b_out_lin    |-> BlendChannel(b_lin[3], o_lin[3], Min(liftRatio, 64 * ONE),
                                 detailWeight, toeLiftLin)]

\* toeMask, then the detail weight and the toe lift it decides.
MaskPixel(o_lin, b_lin, y_base_lin, y_target_lin, liftRatio, toeMask, params) ==
  BlendPixel(o_lin, b_lin, y_base_lin, y_target_lin, liftRatio, toeMask,
             DetailWeight(params.S, toeMask),
             ToeLiftLin(params.S, params.B, toeMask))

\* liftRatio = y_target_lin / y_base_lin, and the strategy's toe mask.
RatioPixel(o_lin, b_lin, y_base_lin, y_target_lin, params, impl) ==
  MaskPixel(o_lin, b_lin, y_base_lin, y_target_lin,
            Div(y_target_lin, y_base_lin), toeMaskOf(impl, y_target_lin), params)

\* "Apply Tone Mapping to Base Luminance"
TonePixel(o_lin, b_lin, y_base_lin, params, impl) ==
  RatioPixel(o_lin, b_lin, y_base_lin, toneMap(impl, y_base_lin, params),
             params, impl)

\* The base layer's luminance, with its epsilon.
BasePixel(o_lin, b_lin, params, impl) ==
  TonePixel(o_lin, b_lin, BaseLuminance(b_lin[1], b_lin[2], b_lin[3]),
            params, impl)

\* The loop body from "Read Original" to the additive toe lift: the locals it
\* leaves.  o and b are the pixel's <<R, G, B>> bytes in originalData and
\* baseData.
Reconstruct(o, b, params, impl) ==
  BasePixel(LinearPixel(o), LinearPixel(b), params, impl)

\* Faulty variant of OutputValue: the clamp to [0, 1] is missing.
OutputValueUnclamped(c_out_lin) == Mul(linearToSrgb(c_out_lin), 255 * ONE)

\* "Output Clamp": the number written for one channel, r_out * 255
OutputValue(c_out_lin) == Mul(Min(ONE, Max(0, linearToSrgb(c_out_lin))), 255 * ONE)

\* A store into a Uint8ClampedArray: round to nearest, ties to even, clamp.
ToUint8Clamped(v) ==
  LET f   == v \div ONE
      rem == v % ONE
      n   == IF 2 * rem > ONE THEN f + 1
             ELSE IF 2 * rem = ONE THEN f + (f % 2)
             ELSE f
  IN  Min(255, Max(0, n))

\* ------------------------------------------------------------------ state
\* One entry per call of processImage in flight (the calls of a batch, or of
\* two previews), indexed by the call.
VARIABLES
  settings,       \* the call's ImageSettings
  algorithm,      \* the call's algorithm identifier
  img,            \* the call's image: what drawImage yields, plain and blurred
  originalData,   \* RGBA bytes of the image, as getImageData returns them
  baseData,       \* RGBA bytes of the blurred image (the canvas blur filter)
  pc,             \* where the call is
  toneParams,     \* the pre-calculated ToneParams
  algorithmImpl,  \* what getToneAlgorithm returned
  postState,      \* the ReconstructionState objects, by reference
  i,              \* the loop index, a byte offset
  px,             \* the loop body's locals
  written,        \* the three numbers last written to outputData
  outputData      \* RGBA bytes of the output

engineVars == << settings, algorithm, img, originalData, baseData, pc, toneParams,
                 algorithmImpl, postState, i, px, written, outputData >>

\* App (App.tsx): the files held, the mode, and the drops being normalized.
VARIABLES
  files,           \* useState<AppFile[]>
  mode,            \* useState<AppMode>
  dropCounterRef,  \* useRef(0)
  pendingDrops,    \* calls of handleFilesDropped waiting at their await
  normalizedFiles, \* normalizedFiles of the call that resumed last
  failedConversions, \* failedConversions of the call that resumed last
  dropNotice,      \* the notice shown, or NoNotice
  noticeTimerRef   \* the number of notice timers set so far

appVars == << files, mode, dropCounterRef, pendingDrops, normalizedFiles, failedConversions, dropNotice, noticeTimerRef >>

\* applyToneMap (shared.ts), statement by statement, on two base luminances
\* at once (y1 <= y2, the same parameters and variant).
VARIABLES
  toneSettings,  \* the ImageSettings the ToneParams come from
  toneVariant,   \* the variant whose applyShadows is passed in
  toneIn,        \* << y1, y2 >>: y_base_lin of either evaluation
  toneY,         \* << y_target_lin, y_target_lin >> so far
  tonePc,        \* the statement applyToneMap is at
  toneTrace      \* the stages run: name, value before, value after

toneVars == << toneSettings, toneVariant, toneIn, toneY, tonePc, toneTrace >>

\* guidedFilter and the boxFilter call it is in (part_006).
VARIABLES
  gfWidth, gfHeight, gfRadius, gfEps,  \* width, height, radius, eps
  gfInput,         \* input
  gfPc,            \* the statement guidedFilter is at
  boxSrc,          \* src of the boxFilter call in progress
  boxPc,           \* the pass boxFilter is at
  boxTmp, boxDst,  \* tmp and dst of the boxFilter call in progress
  gfMeanI, gfInputSquared, gfMeanII,
  gfA, gfB,        \* the arrays a and b
  gfMeanA, gfMeanB,
  gfOutput         \* output

filterVars == << gfWidth, gfHeight, gfRadius, gfEps, gfInput, gfPc, boxSrc, boxPc,
                 boxTmp, boxDst, gfMeanI, gfInputSquared, gfMeanII, gfA, gfB,
                 gfMeanA, gfMeanB, gfOutput >>

\* useHistoryState (useHistoryState.ts) of the mounted Editor.
VARIABLES
  hState,    \* state: the live settings
  hHistory,  \* history
  hIndex,    \* index
  hReturned, \* what the last call returned
  hLog       \* the last two calls: the operation, index and state before it

historyVars == << hState, hHistory, hIndex, hReturned, hLog >>

\* BatchProcessor (components/BatchProcessor) of the mounted batch screen.
VARIABLES
  batchFiles,    \* props.files: what loading and processing each file does
  batchPc,       \* where processFiles is
  filePos,       \* position of the for...of loop in files
  attempted,     \* positions of the files whose loadImage was called, in order
  zip,           \* positions of the files added to the JSZip
  completed,
  successCount,
  failures,
  progress,
  status,
  statusTrace,   \* every value status has had, in order
  zipBlob,
  failedFiles,
  errorMessage

batchVars == << batchFiles, batchPc, filePos, attempted, zip, completed, successCount, failures, progress, status, statusTrace, zipBlob, failedFiles, errorMessage >>

nonEngineVars == << appVars, toneVars, filterVars, historyVars, batchVars >>

nonAppVars == << engineVars, toneVars, filterVars, historyVars, batchVars >>

nonToneVars == << engineVars, appVars, filterVars, historyVars, batchVars >>

nonFilterVars == << engineVars, appVars, toneVars, historyVars, batchVars >>

nonHistoryVars == << engineVars, appVars, toneVars, filterVars, batchVars >>

nonBatchVars == << engineVars, appVars, toneVars, filterVars, historyVars >>

\* No BatchProcessor is mounted.
BatchIdle ==
  /\ batchFiles = << >> /\ batchPc = "unmounted" /\ filePos = 0
  /\ attempted = << >> /\ zip = << >>
  /\ completed = 0 /\ successCount = 0 /\ failures = << >>
  /\ progress = 0 /\ status = "processing" /\ statusTrace = << >>
  /\ zipBlob = "null" /\ failedFiles = << >> /\ errorMessage = "null"

\* dropNotice is null: no message, no tone.
NoNotice == [message |-> 0, tone |-> "null"]

\* No Editor is mounted.
HistoryIdle ==
  /\ hState = << >> /\ hHistory = << >> /\ hIndex = 0
  /\ hReturned = "none" /\ hLog = << >>

\* guidedFilter is not being evaluated.
FilterIdle ==
  /\ gfWidth = 0 /\ gfHeight = 0 /\ gfRadius = 0 /\ gfEps = 0
  /\ gfInput = << >>
  /\ gfPc = "idle"
  /\ boxSrc = << >> /\ boxPc = "idle" /\ boxTmp = << >> /\ boxDst = << >>
  /\ gfMeanI = << >> /\ gfInputSquared = << >> /\ gfMeanII = << >>
  /\ gfA = << >> /\ gfB = << >>
  /\ gfMeanA = << >> /\ gfMeanB = << >>
  /\ gfOutput = << >>

vars == << engineVars, appVars, toneVars, filterVars, historyVars, batchVars >>

\* The App as mounted, untouched.
AppIdle ==
  /\ files = << >>
  /\ mode = "IDLE"
  /\ dropCounterRef = 0
  /\ pendingDrops = {}
  /\ normalizedFiles = << >>
  /\ failedConversions = << >>
  /\ dropNotice = NoNotice
  /\ noticeTimerRef = 0

Calls == DOMAIN pc

\* ----------------------------------------------------------------- inputs
GridN == 8
MaxActive == 1

DEFAULT_SETTINGS ==
  [exposure |-> 0, contrast |-> 0, highlights |-> 0, shadows |-> 70,
   whites |-> 0, blacks |-> 0]

RESET_SETTINGS ==
  [exposure |-> 0, contrast |-> 0, highlights |-> 0, shadows |-> 0,
   whites |-> 0, blacks |-> 0]

\* LIMITS: exposure -5..5 (here in hundredths), the others -100..100
Controls == {"exposure", "contrast", "highlights", "shadows", "whites", "blacks"}

\* The values a control takes in the model: the end points of its range and
\* 0, and for shadows and blacks the half-way points too.
Levels(control) ==
  IF control = "exposure" THEN {-500, 0, 500}
  ELSE IF control \in {"shadows", "blacks"} THEN {-100, -50, 0, 50, 100}
  ELSE {-100, 0, 100}

Active(st) == Cardinality({c \in Controls : st[c] # 0})

\* The settings of the model: every combination of these values with at most
\* MaxActive controls away from 0, and the default preset.
SettingsGrid ==
  {st \in [exposure : Levels("exposure"), contrast : Levels("contrast"),
             highlights : Levels("highlights"), shadows : Levels("shadows"),
             whites : Levels("whites"), blacks : Levels("blacks")] :
     Active(st) <= MaxActive}
  \cup {DEFAULT_SETTINGS}

GrayLevels == {(k * 255) \div GridN : k \in 0..GridN}

Gray(v, a) == << v, v, v, a >>

RECURSIVE Flatten(_)
Flatten(pixels) ==
  IF pixels = << >> THEN << >> ELSE Head(pixels) \o Flatten(Tail(pixels))

\* An image and its blurred copy, from the pixels of each.
Image(orig, base) == [original |-> Flatten(orig), base |-> Flatten(base)]

\* The 2x2 example image: black, mid-gray, white, black.
Example2x2 == << Gray(0, 255), Gray(128, 255), Gray(255, 255), Gray(0, 255) >>

Uniform(v) == << Gray(v, 255), Gray(v, 255), Gray(v, 255), Gray(v, 255) >>

Images ==
  {Image(<< Gray(o, 255 - b) >>, << Gray(b, 255) >>) : o \in GrayLevels, b \in GrayLevels}
  \cup {Image(Example2x2, Uniform(b)) : b \in GrayLevels \cup {95}}
  \cup {Image(Example2x2, Example2x2)}
  \cup {Image(<< <<255, 0, 0, 0>>, <<200, 30, 90, 128>> >>,
              << <<0, 0, 255, 77>>, <<100, 50, 20, 128>> >>),
          Image(<< <<0, 0, 1, 255>>, <<9, 4, 1, 255>> >>,
                << <<0, 0, 1, 255>>, <<9, 4, 1, 255>> >>)}

Variants == {"classic", "review"}

\* Identifiers that are no variant: the select element's value is cast to
\* ToneAlgorithm unchecked.
OtherIds == {"sepia", "constructor"}

Jobs ==
  {[settings |-> st, algorithm |-> a, image |-> im] :
     st \in SettingsGrid, a \in Variants, im \in Images}
  \cup {[settings |-> DEFAULT_SETTINGS, algorithm |-> a, image |-> im] :
          a \in OtherIds, im \in {Image(Example2x2, Example2x2)}}

NoLocals ==
  [y_base_lin |-> 0, y_target_lin |-> 0, liftRatio |-> 0, toeMask |-> 0,
   detailWeight |-> 0, r_out_lin |-> 0, g_out_lin |-> 0, b_out_lin |-> 0]

Zero == [r |-> 0, g |-> 0, b |-> 0]

\* applyToneMap is not being evaluated.
ToneIdle ==
  /\ toneSettings = RESET_SETTINGS
  /\ toneVariant = "classic"
  /\ toneIn = << 0, 0 >>
  /\ toneY = << 0, 0 >>
  /\ tonePc = "idle"
  /\ toneTrace = << >>

InitCalls(jobOf) ==
  /\ settings      = [c \in DOMAIN jobOf |-> jobOf[c].settings]
  /\ algorithm     = [c \in DOMAIN jobOf |-> jobOf[c].algorithm]
  /\ img           = [c \in DOMAIN jobOf |-> jobOf[c].image]
  /\ originalData  = [c \in DOMAIN jobOf |-> << >>]
  /\ baseData      = [c \in DOMAIN jobOf |-> << >>]
  /\ pc            = [c \in DOMAIN jobOf |-> "start"]
  /\ toneParams    = [c \in DOMAIN jobOf |-> ToneParams(RESET_SETTINGS)]
  /\ algorithmImpl = [c \in DOMAIN jobOf |-> classicAlgorithm]
  /\ postState     = [c \in DOMAIN jobOf |-> Zero]
  /\ i             = [c \in DOMAIN jobOf |-> 0]
  /\ px            = [c \in DOMAIN jobOf |-> NoLocals]
  /\ written       = [c \in DOMAIN jobOf |-> << 0, 0, 0 >>]
  /\ outputData    = [c \in DOMAIN jobOf |-> << >>]

Init == AppIdle /\ ToneIdle /\ FilterIdle /\ HistoryIdle /\ BatchIdle /\ \E job \in Jobs : InitCalls([c \in {1} |-> job])

\* ---------------------------------------------------------------- actions
\* Faulty variant of PostStateRef: one scratch record at module level, shared
\* by all calls.
SharedPostState(c) == 1

\* The ReconstructionState object of a call: created by the call itself.
PostStateRef(c) == c

\* Faulty variant of OutputAlpha: alpha read from the blurred copy.
AlphaFromBase(c) == baseData[c][i[c] + 4]

\* outputData[i + 3] = data[i + 3]: the alpha the call writes for its pixel.
OutputAlpha(c) == originalData[c][i[c] + 4]

\* Faulty variant of BlurredData: only the first pixel of the blurred copy is
\* there when the loop starts.
BlurredDataFirstPixel(c) == SubSeq(img[c].base, 1, 4)

\* getImageData(tempCtx, width, height) after the blurred drawImage
BlurredData(c) == img[c].base

\* processImage up to the loop: the original's pixels, the blurred copy's,
\* parameters, strategy, scratch record, output buffer (createImageData: all
\* zero).
Start(c) ==
  /\ pc[c] = "start"
  /\ originalData' = [originalData EXCEPT ![c] = img[c].original]
  /\ baseData' = [baseData EXCEPT ![c] = BlurredData(c)]
  /\ toneParams' = [toneParams EXCEPT ![c] = ToneParams(settings[c])]
  /\ algorithmImpl' = [algorithmImpl EXCEPT ![c] = getToneAlgorithm(algorithm[c])]
  /\ postState' = IF getToneAlgorithm(algorithm[c]).postReconstruct
                    THEN [postState EXCEPT ![PostStateRef(c)] = Zero]
                    ELSE postState
  /\ outputData' = [outputData EXCEPT ![c] = [k \in 1..Len(img[c].original) |-> 0]]
  /\ i' = [i EXCEPT ![c] = 0]
  /\ pc' = [pc EXCEPT ![c] = "loop"]
  /\ UNCHANGED << settings, algorithm, img, px, written >>

\* One iteration, from reading the pixel to the additive toe lift.  A value
\* that is no strategy has no toneMap: the call throws a TypeError.
ReconstructPixel(c) ==
  /\ pc[c] = "loop"
  /\ i[c] < Len(originalData[c])
  /\ IF algorithmImpl[c].kind # "ToneAlgorithmImpl"
       THEN /\ pc' = [pc EXCEPT ![c] = "error"]
            /\ UNCHANGED << px, postState >>
       ELSE /\ px' = [px EXCEPT ![c] =
                        Reconstruct(SubSeq(originalData[c], i[c] + 1, i[c] + 3),
                                    SubSeq(baseData[c], i[c] + 1, i[c] + 3),
                                    toneParams[c], algorithmImpl[c])]
            /\ IF algorithmImpl[c].postReconstruct
                 THEN /\ postState' = [postState EXCEPT ![PostStateRef(c)] =
                                         [r |-> px'[c].r_out_lin,
                                          g |-> px'[c].g_out_lin,
                                          b |-> px'[c].b_out_lin]]
                      /\ pc' = [pc EXCEPT ![c] = "hook"]
                 ELSE /\ UNCHANGED postState
                      /\ pc' = [pc EXCEPT ![c] = "store"]
  /\ UNCHANGED << settings, algorithm, img, originalData, baseData, toneParams,
                  algorithmImpl, i, written, outputData >>

\* algorithmImpl.postReconstruct(postState, y_target_lin, toneParams, toeMask)
PostReconstructHook(c) ==
  /\ pc[c] = "hook"
  /\ postState' = [postState EXCEPT ![PostStateRef(c)] =
                     postReconstruct(postState[PostStateRef(c)], px[c].y_target_lin,
                                     toneParams[c], px[c].toeMask)]
  /\ pc' = [pc EXCEPT ![c] = "store"]
  /\ UNCHANGED << settings, algorithm, img, originalData, baseData, toneParams,
                  algorithmImpl, i, px, written, outputData >>

\* The channels read back from the scratch record, encoded, clamped and
\* written with the pixel's own alpha; i += 4.
StorePixel(c) ==
  /\ pc[c] = "store"
  /\ written' = [written EXCEPT ![c] =
                   IF algorithmImpl[c].postReconstruct
                     THEN << OutputValue(postState[PostStateRef(c)].r),
                             OutputValue(postState[PostStateRef(c)].g),
                             OutputValue(postState[PostStateRef(c)].b) >>
                     ELSE << OutputValue(px[c].r_out_lin),
                             OutputValue(px[c].g_out_lin),
                             OutputValue(px[c].b_out_lin) >>]
  /\ outputData' = [outputData EXCEPT
                      ![c][i[c] + 1] = ToUint8Clamped(written'[c][1]),
                      ![c][i[c] + 2] = ToUint8Clamped(written'[c][2]),
                      ![c][i[c] + 3] = ToUint8Clamped(written'[c][3]),
                      ![c][i[c] + 4] = OutputAlpha(c)]
  /\ i' = [i EXCEPT ![c] = i[c] + 4]
  /\ pc' = [pc EXCEPT ![c] = "loop"]
  /\ UNCHANGED << settings, algorithm, img, originalData, baseData, toneParams,
                  algorithmImpl, postState, px >>

\* The loop has run out: putImageData and the blob.
Finish(c) ==
  /\ pc[c] = "loop"
  /\ i[c] >= Len(originalData[c])
  /\ pc' = [pc EXCEPT ![c] = "done"]
  /\ UNCHANGED << settings, algorithm, img, originalData, baseData, toneParams,
                  algorithmImpl, postState, i, px, written, outputData >>

Next ==
  \/ \E c \in Calls : Start(c) /\ UNCHANGED nonEngineVars
  \/ \E c \in Calls : ReconstructPixel(c) /\ UNCHANGED nonEngineVars
  \/ \E c \in Calls : PostReconstructHook(c) /\ UNCHANGED nonEngineVars
  \/ \E c \in Calls : StorePixel(c) /\ UNCHANGED nonEngineVars
  \/ \E c \in Calls : Finish(c) /\ UNCHANGED nonEngineVars

Spec == Init /\ [][Next]_vars

\* ------------------------------------------------- several calls in flight
\* Calls of processImage whose steps interleave (a batch, or two previews):
\* a two-pixel image under three shadows values and both variants.
ParCalls == 2

ParSettings ==
  {RESET_SETTINGS, DEFAULT_SETTINGS, [DEFAULT_SETTINGS EXCEPT !.shadows = 100]}

ParImage ==
  Image(<< Gray(0, 255), Gray(40, 200) >>, << Gray(60, 255), Gray(40, 255) >>)

ParJobs ==
  {[settings |-> st, algorithm |-> a, image |-> ParImage] :
     st \in ParSettings, a \in Variants}

InitPar == AppIdle /\ ToneIdle /\ FilterIdle /\ HistoryIdle /\ BatchIdle /\ \E jobOf \in [1..ParCalls -> ParJobs] : InitCalls(jobOf)

SpecPar == InitPar /\ [][Next]_vars

\* -------------------------------------------------------------------- App
\* No call of processImage is in flight.
EngineIdle == InitCalls(<< >>)

MaxDropped == 2
MaxDrops == 3

\* A dropped File is a HEIC/HEIF file or not (isHeicFile).
FileKinds == {"plain", "heic"}

\* What the Dropzone and the global drop handler pass on: never an empty list.
DroppedLists == UNION {[1..n -> FileKinds] : n \in 1..MaxDropped}

\* One more file in the normalized list of a result.
Converted(kind, result) ==
  [normalized |-> << kind >> \o result.normalized,
   failedConversions |-> result.failedConversions]

\* One more name in the failed conversions of a result.
Failed(kind, result) ==
  [normalized |-> result.normalized,
   failedConversions |-> << kind >> \o result.failedConversions]

\* normalizeDroppedFiles: every other file is kept, a HEIC file is converted
\* to PNG or, when the conversion throws, listed in failedConversions.
RECURSIVE normalizeDroppedFiles(_)
normalizeDroppedFiles(droppedFiles) ==
  IF droppedFiles = << >> THEN {[normalized |-> << >>, failedConversions |-> << >>]}
  ELSE IF Head(droppedFiles) = "heic"
    THEN {Converted("png", rest) : rest \in normalizeDroppedFiles(Tail(droppedFiles))}
         \cup {Failed("heic", rest) : rest \in normalizeDroppedFiles(Tail(droppedFiles))}
    ELSE {Converted("plain", rest) : rest \in normalizeDroppedFiles(Tail(droppedFiles))}

\* A drop without HEIC files awaits nothing but the promise itself: it resumes
\* in a microtask, before any other event is handled.
MicrotaskPending ==
  \E drop \in pendingDrops :
    \A k \in DOMAIN drop.droppedFiles : drop.droppedFiles[k] # "heic"

\* Faulty variant of ModeFor: two files still open the editor.
ModeForUpToTwo(normalized) ==
  IF Len(normalized) <= 2 THEN "EDITOR" ELSE "BATCH_PROCESSING"

\* The mode handleFilesDropped sets for a non-empty list.
ModeFor(normalized) ==
  IF Len(normalized) = 1 THEN "EDITOR" ELSE "BATCH_PROCESSING"

\* showNotice(message, tone): the notice and a new timer in place of the old.
showNotice(message, tone) ==
  /\ dropNotice' = [message |-> message, tone |-> tone]
  /\ noticeTimerRef' = noticeTimerRef + 1

NeverStale(dropId, counter) == FALSE

\* dropId !== dropCounterRef.current
IsStale(dropId, counter) == dropId # counter

\* handleFilesDropped up to its await.
handleFilesDropped(droppedFiles) ==
  /\ ~MicrotaskPending
  /\ dropCounterRef < MaxDrops
  /\ dropCounterRef' = dropCounterRef + 1
  /\ pendingDrops' = pendingDrops \cup
                       {[dropId |-> dropCounterRef + 1, droppedFiles |-> droppedFiles]}
  /\ UNCHANGED << files, mode, normalizedFiles, failedConversions, dropNotice, noticeTimerRef, nonAppVars >>

\* handleFilesDropped from its await on: a stale drop changes nothing, a
\* current one warns of failed conversions and applies a non-empty list.
handleFilesDroppedResume(drop) ==
  /\ drop \in pendingDrops
  /\ pendingDrops' = pendingDrops \ {drop}
  /\ \E result \in normalizeDroppedFiles(drop.droppedFiles) :
       /\ normalizedFiles' = result.normalized
       /\ failedConversions' = result.failedConversions
       /\ IF IsStale(drop.dropId, dropCounterRef)
            THEN UNCHANGED << files, mode, dropNotice, noticeTimerRef >>
            ELSE /\ IF Len(result.failedConversions) > 0
                      THEN showNotice(Len(result.failedConversions), "warning")
                      ELSE UNCHANGED << dropNotice, noticeTimerRef >>
                 /\ IF Len(result.normalized) = 0
                      THEN UNCHANGED << files, mode >>
                      ELSE /\ files' = result.normalized
                           /\ mode' = ModeFor(result.normalized)
  /\ UNCHANGED << dropCounterRef, nonAppVars >>

\* handleReset: the Editor's and the BatchProcessor's way back, rendered only
\* in their modes and with a file held.
handleReset ==
  /\ ~MicrotaskPending
  /\ mode \in {"EDITOR", "BATCH_PROCESSING"}
  /\ Len(files) > 0
  /\ files' = << >>
  /\ mode' = "IDLE"
  /\ UNCHANGED << dropCounterRef, pendingDrops, normalizedFiles, failedConversions, dropNotice, noticeTimerRef, nonAppVars >>

\* The notice goes away: its timer fires or its close button is clicked.
dismissNotice ==
  /\ ~MicrotaskPending
  /\ dropNotice # NoNotice
  /\ dropNotice' = NoNotice
  /\ UNCHANGED << files, mode, dropCounterRef, pendingDrops, normalizedFiles, failedConversions, noticeTimerRef, nonAppVars >>

InitApp == AppIdle /\ EngineIdle /\ ToneIdle /\ FilterIdle /\ HistoryIdle /\ BatchIdle

NextApp ==
  \/ \E droppedFiles \in DroppedLists : handleFilesDropped(droppedFiles)
  \/ \E drop \in pendingDrops : handleFilesDroppedResume(drop)
  \/ handleReset
  \/ dismissNotice

SpecApp == InitApp /\ [][NextApp]_vars

\* ------------------------------------------------------------ applyToneMap
LumN == 8
ToneMaxActive == 2

\* y_base_lin as processImage passes it: at least 0.0001, at most 1.
LumLevels == {Max(100, (k * ONE) \div LumN) : k \in 0..LumN}

\* Two base luminances next to each other on the grid, the darker first.
LumPairs ==
  {<< Max(100, (k * ONE) \div LumN), Max(100, ((k + 1) * ONE) \div LumN) >> :
     k \in 0..(LumN - 1)}

ToneSettings ==
  {st \in [exposure : Levels("exposure"), contrast : Levels("contrast"),
             highlights : Levels("highlights"), shadows : Levels("shadows"),
             whites : Levels("whites"), blacks : Levels("blacks")] :
     Active(st) <= ToneMaxActive}

\* Faulty variant of StageAfter: contrast is applied first, before exposure.
StageAfterContrastFirst(stage) ==
  CASE stage = "enter"      -> "contrast"
    [] stage = "contrast"   -> "exposure"
    [] stage = "exposure"   -> "shadows"
    [] stage = "shadows"    -> "highlights"
    [] stage = "highlights" -> "whites"
    [] stage = "whites"     -> "blacks"
    [] stage = "blacks"     -> "return"

\* The statement of applyToneMap that follows a statement: A. Exposure,
\* B. Shadows, C. Highlights, D. Whites / Blacks, E. Contrast, return.
StageAfter(stage) ==
  CASE stage = "enter"      -> "exposure"
    [] stage = "exposure"   -> "shadows"
    [] stage = "shadows"    -> "highlights"
    [] stage = "highlights" -> "whites"
    [] stage = "whites"     -> "blacks"
    [] stage = "blacks"     -> "contrast"
    [] stage = "contrast"   -> "return"

\* One statement of applyToneMap: y_target_lin becomes out in either
\* evaluation.
StageStep(stage, out) ==
  /\ toneY' = out
  /\ toneTrace' = Append(toneTrace, [stage |-> stage, before |-> toneY, after |-> out])
  /\ tonePc' = StageAfter(stage)
  /\ UNCHANGED << toneSettings, toneVariant, toneIn, nonToneVars >>

\* let y_target_lin = y_base_lin
EnterToneMap ==
  /\ tonePc = "enter"
  /\ toneY' = toneIn
  /\ tonePc' = StageAfter("enter")
  /\ UNCHANGED << toneSettings, toneVariant, toneIn, toneTrace, nonToneVars >>

\* A. Exposure
ExposureStage ==
  /\ tonePc = "exposure"
  /\ StageStep("exposure",
            [l \in {1, 2} |->
               IF ToneParams(toneSettings).exposureMult # ONE
                 THEN Mul(toneY[l], ToneParams(toneSettings).exposureMult)
                 ELSE toneY[l]])

\* B. Shadows
ShadowsStage ==
  /\ tonePc = "shadows"
  /\ StageStep("shadows",
            [l \in {1, 2} |->
               IF ToneParams(toneSettings).S # 0
                 THEN applyShadows(toneVariant, toneY[l], ToneParams(toneSettings).S)
                 ELSE toneY[l]])

\* C. Highlights
HighlightsStage ==
  /\ tonePc = "highlights"
  /\ StageStep("highlights",
            [l \in {1, 2} |-> applyHighlights(toneY[l], ToneParams(toneSettings).H)])

\* D. Whites
WhitesStage ==
  /\ tonePc = "whites"
  /\ StageStep("whites",
            [l \in {1, 2} |-> applyWhites(toneY[l], ToneParams(toneSettings).W)])

\* D. Blacks
BlacksStage ==
  /\ tonePc = "blacks"
  /\ StageStep("blacks",
            [l \in {1, 2} |-> applyBlacks(toneY[l], ToneParams(toneSettings).B)])

\* E. Contrast (Pivot)
ContrastStage ==
  /\ tonePc = "contrast"
  /\ StageStep("contrast",
            [l \in {1, 2} |-> applyContrast(toneY[l], ToneParams(toneSettings))])

\* return Math.max(0, y_target_lin)
ReturnToneMap ==
  /\ tonePc = "return"
  /\ toneY' = [l \in {1, 2} |-> Max(0, toneY[l])]
  /\ tonePc' = "done"
  /\ UNCHANGED << toneSettings, toneVariant, toneIn, toneTrace, nonToneVars >>

InitTone ==
  /\ AppIdle
  /\ EngineIdle
  /\ FilterIdle
  /\ HistoryIdle
  /\ BatchIdle
  /\ toneSettings \in ToneSettings
  /\ toneVariant \in Variants
  /\ toneIn \in LumPairs
  /\ toneY = << 0, 0 >>
  /\ tonePc = "enter"
  /\ toneTrace = << >>

NextTone ==
  \/ EnterToneMap
  \/ ExposureStage
  \/ ShadowsStage
  \/ HighlightsStage
  \/ WhitesStage
  \/ BlacksStage
  \/ ContrastStage
  \/ ReturnToneMap

SpecTone == InitTone /\ [][NextTone]_vars

\* ------------------------------------------------- boxFilter, guidedFilter
\* The numbers of the filters are held as integers, in units of 2^-FracBits.
\* A Float32Array element keeps FloatBits significant bits (24 in the code,
\* fewer here); a double is taken as exact.
FracBits == 8
FloatBits == 5

\* The number 1.0
Unit == 2 ^ FracBits

\* num / den (both >= 0) to the nearest integer, ties to even
RoundHalfEven(num, den) ==
  IF 2 * (num % den) > den \/ (2 * (num % den) = den /\ (num \div den) % 2 = 1)
    THEN num \div den + 1
    ELSE num \div den

\* The spacing of the Float32Array values around num / den.
RECURSIVE Quantum(_, _, _)
Quantum(num, den, g) ==
  IF num < den * g * (2 ^ FloatBits) THEN g ELSE Quantum(num, den, 2 * g)

FroundAt(num, den, g) == g * RoundHalfEven(num, den * g)

\* The store of the double num / den in a Float32Array: Math.fround.
Fround(num, den) ==
  Sgn(num) * Sgn(den) * FroundAt(Abs(num), Abs(den), Quantum(Abs(num), Abs(den), 1))

RECURSIVE SumFrom(_, _, _)
SumFrom(f, lo, hi) == IF lo > hi THEN 0 ELSE f[lo] + SumFrom(f, lo + 1, hi)

\* const addX = Math.min(width - 1, x + radius + 1)
AddX(width, x, radius) == Min(width - 1, x + radius + 1)

\* Faulty variant of SubX: the element left of the window's first is taken out.
SubXOffByOne(x, radius) == Max(0, x - radius - 1)

\* const subX = Math.max(0, x - radius)
SubX(x, radius) == Max(0, x - radius)

AddY(height, y, radius) == Min(height - 1, y + radius + 1)

SubY(y, radius) == Max(0, y - radius)

\* Horizontal pass, the first inner loop: the window sum of x = 0.
RowStart(src, width, radius, row) ==
  SumFrom([x \in -radius..radius |-> src[row + Min(width - 1, Max(0, x)) + 1]],
          -radius, radius)

\* Horizontal pass, the second inner loop from x on: tmp[row + x .. row + width - 1].
RECURSIVE RowPass(_, _, _, _, _, _)
RowPass(src, width, radius, row, x, sum) ==
  IF x = width THEN << >>
  ELSE << Fround(sum, 1) >>
       \o RowPass(src, width, radius, row, x + 1,
                  sum + src[row + AddX(width, x, radius) + 1] - src[row + SubX(x, radius) + 1])

\* tmp after the horizontal pass
HorizontalPass(src, width, height, radius) ==
  Flatten([y \in 1..height |->
             RowPass(src, width, radius, (y - 1) * width, 0,
                     RowStart(src, width, radius, (y - 1) * width))])

\* Vertical pass, the first inner loop: the window sum of y = 0.
ColStart(tmp, width, height, radius, x) ==
  SumFrom([y \in -radius..radius |-> tmp[Min(height - 1, Max(0, y)) * width + x + 1]],
          -radius, radius)

\* Vertical pass, the second inner loop from y on: dst of column x, rows y .. height - 1.
RECURSIVE ColPass(_, _, _, _, _, _, _)
ColPass(tmp, width, height, radius, x, y, sum) ==
  IF y = height THEN << >>
  ELSE << Fround(sum, (2 * radius + 1) * (2 * radius + 1)) >>
       \o ColPass(tmp, width, height, radius, x, y + 1,
                  sum + tmp[AddY(height, y, radius) * width + x + 1]
                      - tmp[SubY(y, radius) * width + x + 1])

\* The columns of dst, one sequence a column.
ColumnsOf(tmp, width, height, radius) ==
  [x \in 1..width |->
     ColPass(tmp, width, height, radius, x - 1, 0, ColStart(tmp, width, height, radius, x - 1))]

ByRows(cols, width, height) ==
  [k \in 1..(width * height) |-> cols[((k - 1) % width) + 1][((k - 1) \div width) + 1]]

\* dst after the vertical pass
VerticalPass(tmp, width, height, radius) ==
  ByRows(ColumnsOf(tmp, width, height, radius), width, height)

\* inputSquared[i] = input[i] * input[i]
Squared(input) == [k \in DOMAIN input |-> Fround(input[k] * input[k], Unit)]

\* varI = meanII[i] - meanI[i] * meanI[i], in units of 2^-(2 * FracBits)
VarI(meanI_i, meanII_i) == meanII_i * Unit - meanI_i * meanI_i

\* a[i] = ai, with ai = varI / (varI + eps)
CoefA(varI, eps) == Fround(varI * Unit, varI + eps * Unit)

\* Faulty variant of CoefB: b[i] = ai * meanI[i].
CoefBTimesA(meanI_i, varI, eps) == Fround(meanI_i * varI, varI + eps * Unit)

\* b[i] = meanI[i] - ai * meanI[i], which is meanI[i] * eps / (varI + eps)
CoefB(meanI_i, varI, eps) == Fround(meanI_i * eps * Unit, varI + eps * Unit)

\* output[i] = meanA[i] * input[i] + meanB[i]
OutputOf(meanA_i, input_i, meanB_i) == Fround(meanA_i * input_i + meanB_i * Unit, Unit)

MaxWidth == 3
MaxHeight == 2
MaxRadius == 2

\* Luminances a Float32Array holds exactly, 1.0 at most.
FloatVals == {20, 104, 248}

FloatPairs == {<< 0, 248 >>, << 104, 20 >>, << 248, 104 >>}

\* eps: 1.0 and 8.0
EpsLevels == {Unit, 8 * Unit}

\* Inputs: flat images, images with one pixel apart from the rest, and images
\* with a vertical edge.
FilterInputs(width, height) ==
  {[k \in 1..(width * height) |-> v] : v \in FloatVals}
  \cup {[k \in 1..(width * height) |-> IF k = at THEN pair[2] ELSE pair[1]] :
          at \in 1..(width * height), pair \in FloatPairs}
  \cup {[k \in 1..(width * height) |-> IF (k - 1) % width < edge THEN pair[1] ELSE pair[2]] :
          edge \in 1..(width - 1), pair \in FloatPairs}

\* A call of boxFilter(src, width, height, radius): tmp and dst are new arrays.
CallBoxFilter(src) ==
  /\ boxSrc' = src
  /\ boxTmp' = [k \in DOMAIN src |-> 0]
  /\ boxDst' = [k \in DOMAIN src |-> 0]
  /\ boxPc' = "horizontal"

\* guidedFilter up to its first call of boxFilter.
GuidedStart ==
  /\ gfPc = "start"
  /\ CallBoxFilter(gfInput)
  /\ gfPc' = "meanI"
  /\ UNCHANGED << gfWidth, gfHeight, gfRadius, gfEps, gfInput, gfMeanI, gfInputSquared,
                  gfMeanII, gfA, gfB, gfMeanA, gfMeanB, gfOutput, nonFilterVars >>

\* boxFilter: the horizontal pass.
BoxHorizontal ==
  /\ boxPc = "horizontal"
  /\ boxTmp' = HorizontalPass(boxSrc, gfWidth, gfHeight, gfRadius)
  /\ boxPc' = "vertical"
  /\ UNCHANGED << gfWidth, gfHeight, gfRadius, gfEps, gfInput, gfPc, boxSrc, boxDst,
                  gfMeanI, gfInputSquared, gfMeanII, gfA, gfB, gfMeanA, gfMeanB,
                  gfOutput, nonFilterVars >>

\* boxFilter: the vertical pass.
BoxVertical ==
  /\ boxPc = "vertical"
  /\ boxDst' = VerticalPass(boxTmp, gfWidth, gfHeight, gfRadius)
  /\ boxPc' = "return"
  /\ UNCHANGED << gfWidth, gfHeight, gfRadius, gfEps, gfInput, gfPc, boxSrc, boxTmp,
                  gfMeanI, gfInputSquared, gfMeanII, gfA, gfB, gfMeanA, gfMeanB,
                  gfOutput, nonFilterVars >>

\* meanI returned; inputSquared filled; boxFilter called for meanII.
GuidedMeanI ==
  /\ gfPc = "meanI" /\ boxPc = "return"
  /\ gfMeanI' = boxDst
  /\ gfInputSquared' = Squared(gfInput)
  /\ CallBoxFilter(Squared(gfInput))
  /\ gfPc' = "meanII"
  /\ UNCHANGED << gfWidth, gfHeight, gfRadius, gfEps, gfInput, gfMeanII, gfA, gfB,
                  gfMeanA, gfMeanB, gfOutput, nonFilterVars >>

\* meanII returned; a and b filled; boxFilter called for meanA.
GuidedMeanII ==
  /\ gfPc = "meanII" /\ boxPc = "return"
  /\ gfMeanII' = boxDst
  /\ gfA' = [k \in DOMAIN gfInput |-> CoefA(VarI(gfMeanI[k], boxDst[k]), gfEps)]
  /\ gfB' = [k \in DOMAIN gfInput |-> CoefB(gfMeanI[k], VarI(gfMeanI[k], boxDst[k]), gfEps)]
  /\ CallBoxFilter(gfA')
  /\ gfPc' = "meanA"
  /\ UNCHANGED << gfWidth, gfHeight, gfRadius, gfEps, gfInput, gfMeanI, gfInputSquared,
                  gfMeanA, gfMeanB, gfOutput, nonFilterVars >>

\* meanA returned; boxFilter called for meanB.
GuidedMeanA ==
  /\ gfPc = "meanA" /\ boxPc = "return"
  /\ gfMeanA' = boxDst
  /\ CallBoxFilter(gfB)
  /\ gfPc' = "meanB"
  /\ UNCHANGED << gfWidth, gfHeight, gfRadius, gfEps, gfInput, gfMeanI, gfInputSquared,
                  gfMeanII, gfA, gfB, gfMeanB, gfOutput, nonFilterVars >>

\* meanB returned; output filled and returned.
GuidedMeanB ==
  /\ gfPc = "meanB" /\ boxPc = "return"
  /\ gfMeanB' = boxDst
  /\ gfOutput' = [k \in DOMAIN gfInput |-> OutputOf(gfMeanA[k], gfInput[k], boxDst[k])]
  /\ gfPc' = "done"
  /\ UNCHANGED << gfWidth, gfHeight, gfRadius, gfEps, gfInput, boxSrc, boxPc, boxTmp,
                  boxDst, gfMeanI, gfInputSquared, gfMeanII, gfA, gfB, gfMeanA,
                  nonFilterVars >>

InitFilter ==
  /\ AppIdle
  /\ EngineIdle
  /\ ToneIdle
  /\ HistoryIdle
  /\ BatchIdle
  /\ gfWidth \in 1..MaxWidth
  /\ gfHeight \in 1..MaxHeight
  /\ gfRadius \in 0..MaxRadius
  /\ gfEps \in EpsLevels
  /\ gfInput \in FilterInputs(gfWidth, gfHeight)
  /\ gfPc = "start"
  /\ boxSrc = << >> /\ boxPc = "idle" /\ boxTmp = << >> /\ boxDst = << >>
  /\ gfMeanI = << >> /\ gfInputSquared = << >> /\ gfMeanII = << >>
  /\ gfA = << >> /\ gfB = << >>
  /\ gfMeanA = << >> /\ gfMeanB = << >>
  /\ gfOutput = << >>

NextFilter ==
  \/ GuidedStart
  \/ BoxHorizontal
  \/ BoxVertical
  \/ GuidedMeanI
  \/ GuidedMeanII
  \/ GuidedMeanA
  \/ GuidedMeanB

SpecFilter == InitFilter /\ [][NextFilter]_vars

\* --------------------------------------------------------- useHistoryState
MaxHistory == 3

\* The key order of the ImageSettings literals in constants.ts.
SettingsKeys == << "exposure", "contrast", "highlights", "shadows", "whites", "blacks" >>

\* An object: its keys in insertion order and their values.
ObjectOf(st) == [keys |-> SettingsKeys, vals |-> st]

\* { ...settings, [key]: value }: the key keeps its place.
SpreadWith(obj, key, value) == [keys |-> obj.keys, vals |-> [obj.vals EXCEPT ![key] = value]]

\* JSON.stringify: the members in insertion order.
JSONstringify(obj) == [k \in DOMAIN obj.keys |-> << obj.keys[k], obj.vals[obj.keys[k]] >>]

defaultIsEqual(x, y) == JSONstringify(x) = JSONstringify(y)

\* What a slider of the model is moved to.
SliderValues == {0, 30, 70}

PushAtEnd(hist, idx, next) == Append(hist, next)

\* const newHistory = history.slice(0, index + 1); newHistory.push(next)
PushAfterIndex(hist, idx, next) == Append(SubSeq(hist, 1, idx + 1), next)

\* history[k], undefined outside the list.
At(hist, k) == IF k >= 0 /\ k < Len(hist) THEN hist[k + 1] ELSE "undefined"

FirstEntry(hist, idx) == At(hist, 0)

\* const current = history[index]
CurrentEntry(hist, idx) == At(hist, idx)

PastLastEntry(idx, hist) == idx >= Len(hist)

\* index >= history.length - 1
AtLastEntry(idx, hist) == idx >= Len(hist) - 1

\* The log with one more call.
Logged(op) ==
  (IF Len(hLog) = 2 THEN Tail(hLog) ELSE hLog)
    \o << [op |-> op, index |-> hIndex, state |-> hState] >>

\* setState(next), as the Editor's handleSettingChange calls it.
setState(value) ==
  /\ Len(hHistory) > 0
  /\ hState' = SpreadWith(hState, "shadows", value)
  /\ hReturned' = "none"
  /\ hLog' = Logged("setState")
  /\ UNCHANGED << hHistory, hIndex, nonHistoryVars >>

\* commit(next)
commit(next) ==
  /\ Len(hHistory) > 0
  /\ IF defaultIsEqual(CurrentEntry(hHistory, hIndex), next)
       THEN UNCHANGED << hHistory, hIndex >>
       ELSE /\ Len(hHistory) < MaxHistory
            /\ hHistory' = PushAfterIndex(hHistory, hIndex, next)
            /\ hIndex' = Len(hHistory') - 1
  /\ hReturned' = "none"
  /\ hLog' = Logged("commit")
  /\ UNCHANGED << hState, nonHistoryVars >>

\* undo()
undo ==
  /\ Len(hHistory) > 0
  /\ IF hIndex <= 0
       THEN /\ hReturned' = "null"
            /\ UNCHANGED << hState, hIndex >>
       ELSE /\ hIndex' = hIndex - 1
            /\ hState' = At(hHistory, hIndex')
            /\ hReturned' = At(hHistory, hIndex')
  /\ hLog' = Logged("undo")
  /\ UNCHANGED << hHistory, nonHistoryVars >>

\* redo()
redo ==
  /\ Len(hHistory) > 0
  /\ IF AtLastEntry(hIndex, hHistory)
       THEN /\ hReturned' = "null"
            /\ UNCHANGED << hState, hIndex >>
       ELSE /\ hIndex' = hIndex + 1
            /\ hState' = At(hHistory, hIndex')
            /\ hReturned' = At(hHistory, hIndex')
  /\ hLog' = Logged("redo")
  /\ UNCHANGED << hHistory, nonHistoryVars >>

\* reset(next)
reset(next) ==
  /\ Len(hHistory) > 0
  /\ Len(hHistory) < MaxHistory
  /\ hState' = next
  /\ hHistory' = PushAfterIndex(hHistory, hIndex, next)
  /\ hIndex' = Len(hHistory') - 1
  /\ hReturned' = next
  /\ hLog' = Logged("reset")
  /\ UNCHANGED nonHistoryVars

canUndo == hIndex > 0

canRedo == hIndex < Len(hHistory) - 1

\* useHistoryState(DEFAULT_SETTINGS) at the mount of the Editor.
InitHistory ==
  /\ AppIdle
  /\ EngineIdle
  /\ ToneIdle
  /\ FilterIdle
  /\ BatchIdle
  /\ hState = ObjectOf(DEFAULT_SETTINGS)
  /\ hHistory = << ObjectOf(DEFAULT_SETTINGS) >>
  /\ hIndex = 0
  /\ hReturned = "none"
  /\ hLog = << >>

NextHistory ==
  \/ \E value \in SliderValues : setState(value)
  \/ commit(hState)
  \/ undo
  \/ redo
  \/ reset(ObjectOf(RESET_SETTINGS))

SpecHistory == InitHistory /\ [][NextHistory]_vars

\* ---------------------------------------------------------- BatchProcessor
MaxFiles == 3

\* What loadImage and processImage do with a file.
FileOutcomes == {"ok", "loadFails", "processFails"}

\* The mode is BATCH_PROCESSING for two files or more.
BatchLists == UNION {[1..n -> FileOutcomes] : n \in 2..MaxFiles}

\* Math.round((completed / files.length) * 100)
ProgressOf(done, len) == (200 * done + len) \div (2 * len)

PastAllFiles(pos, len) == len + 1

\* for (const file of files): the file after this one.
NextFile(pos, len) == pos + 1

NeverNoneSucceeded(n) == n < 0

\* successCount === 0
NoneSucceeded(n) == n = 0

\* setStatus(next)
setStatus(next) ==
  /\ status' = next
  /\ statusTrace' = Append(statusTrace, next)

\* finally { completed++; setProgress(...) }, then the loop goes on.
FinallyCompleted ==
  /\ completed' = completed + 1
  /\ progress' = ProgressOf(completed', Len(batchFiles))
  /\ filePos' = NextFile(filePos, Len(batchFiles))
  /\ batchPc' = IF filePos' > Len(batchFiles) THEN "loopEnd" ELSE "load"

\* catch (error) { failures.push(...) }
CatchFailure ==
  /\ failures' = Append(failures, filePos)
  /\ UNCHANGED << zip, successCount >>

\* await loadImage(file.file)
LoadImage ==
  /\ batchPc = "load"
  /\ attempted' = Append(attempted, filePos)
  /\ IF batchFiles[filePos] = "loadFails"
       THEN CatchFailure /\ FinallyCompleted
       ELSE /\ batchPc' = "process"
            /\ UNCHANGED << zip, successCount, failures, completed, progress, filePos >>
  /\ UNCHANGED << batchFiles, status, statusTrace, zipBlob, failedFiles, errorMessage >>
  /\ UNCHANGED nonBatchVars

\* await processImage(img, DEFAULT_SETTINGS, file.outputType); zip.file(...)
ProcessImage ==
  /\ batchPc = "process"
  /\ IF batchFiles[filePos] = "processFails"
       THEN CatchFailure
       ELSE /\ zip' = Append(zip, filePos)
            /\ successCount' = successCount + 1
            /\ UNCHANGED failures
  /\ FinallyCompleted
  /\ UNCHANGED << batchFiles, attempted, status, statusTrace, zipBlob, failedFiles, errorMessage >>
  /\ UNCHANGED nonBatchVars

\* After the loop: setFailedFiles, then 'error' and return, or 'zipping'.
LoopEnd ==
  /\ batchPc = "loopEnd"
  /\ failedFiles' = IF Len(failures) > 0 THEN failures ELSE failedFiles
  /\ IF NoneSucceeded(successCount)
       THEN /\ errorMessage' = "allFailed"
            /\ setStatus("error")
            /\ batchPc' = "done"
       ELSE /\ setStatus("zipping")
            /\ batchPc' = "zip"
            /\ UNCHANGED errorMessage
  /\ UNCHANGED << batchFiles, filePos, attempted, zip, completed, successCount, failures, progress, zipBlob >>
  /\ UNCHANGED nonBatchVars

\* await zip.generateAsync({ type: 'blob' }) resolves or rejects.
GenerateZip ==
  /\ batchPc = "zip"
  /\ \/ /\ zipBlob' = "blob"
        /\ setStatus("complete")
        /\ UNCHANGED errorMessage
     \/ /\ errorMessage' = "zipFailed"
        /\ setStatus("error")
        /\ UNCHANGED zipBlob
  /\ batchPc' = "done"
  /\ UNCHANGED << batchFiles, filePos, attempted, zip, completed, successCount, failures, progress, failedFiles >>
  /\ UNCHANGED nonBatchVars

\* The mount of BatchProcessor: the useState values and the effect's first lines.
InitBatch ==
  /\ AppIdle
  /\ EngineIdle
  /\ ToneIdle
  /\ FilterIdle
  /\ HistoryIdle
  /\ batchFiles \in BatchLists
  /\ batchPc = "load" /\ filePos = 1
  /\ attempted = << >> /\ zip = << >>
  /\ completed = 0 /\ successCount = 0 /\ failures = << >>
  /\ progress = 0 /\ status = "processing" /\ statusTrace = << "processing" >>
  /\ zipBlob = "null" /\ failedFiles = << >> /\ errorMessage = "null"

NextBatch ==
  \/ LoadImage
  \/ ProcessImage
  \/ LoopEnd
  \/ GenerateZip

SpecBatch == InitBatch /\ [][NextBatch]_vars

\* ------------------------------------------------------------- properties
\* The pixels a call has stored so far, and the bytes of pixel k.
Stored(c) == 1..(i[c] \div 4)

InRGB(c, k) == SubSeq(originalData[c], 4 * k - 3, 4 * k - 1)

BaseRGB(c, k) == SubSeq(baseData[c], 4 * k - 3, 4 * k - 1)

OutRGB(c, k) == SubSeq(outputData[c], 4 * k - 3, 4 * k - 1)

\* Linear luminance of three display-encoded bytes.
ByteLuminance(p) == Luminance(LinearPixel(p)[1], LinearPixel(p)[2], LinearPixel(p)[3])

\* The pixel a call is working on (between ReconstructPixel and StorePixel).
Current(c) == i[c] \div 4 + 1

\* The linear channels the call is about to encode.
FinalLin(c) ==
  IF algorithmImpl[c].postReconstruct
    THEN postState[PostStateRef(c)]
    ELSE [r |-> px[c].r_out_lin, g |-> px[c].g_out_lin, b |-> px[c].b_out_lin]

OnlyControl(st, control) ==
  \A other \in Controls \ {control} : st[other] = 0

\* C1: every R, G and B value processImage writes to the output buffer lies in
\* [0, 255], for every image, every parameter combination in the documented
\* ranges and either variant: the number handed to the buffer and the byte
\* the buffer then holds.
C1_OutputInRange ==
  \A c \in Calls :
    /\ \A k \in 1..3 : written[c][k] >= 0 /\ written[c][k] <= 255 * ONE
    /\ \A j \in DOMAIN outputData[c] : outputData[c][j] \in 0..255

\* A white pixel at exposure +5: the linear value is far above 1 and the
\* value written is exactly 255.
C1_Witness ==
  \E c \in Calls :
    /\ pc[c] = "done" /\ settings[c].exposure = 500
    /\ px[c].r_out_lin > ONE
    /\ written[c] = << 255 * ONE, 255 * ONE, 255 * ONE >>

\* C2: for every pixel, every parameter combination and either variant, the
\* alpha value written to the output equals the alpha value of the same pixel
\* of the input.
C2_AlphaPreserved ==
  \A c \in Calls : \A k \in Stored(c) : outputData[c][4 * k] = originalData[c][4 * k]

\* A finished call on an image whose alpha values (0 and 128) differ from
\* those of its blurred copy.
C2_Witness ==
  \E c \in Calls :
    /\ pc[c] = "done" /\ Len(originalData[c]) = 8
    /\ originalData[c][4] = 0 /\ baseData[c][4] = 77
    /\ outputData[c][4] = 0 /\ outputData[c][8] = 128

\* C3: with the classic variant and all six controls at 0, for every image
\* and every base layer, each output R, G, B value differs from the input
\* value by at most 1.
C3_NeutralIdentity ==
  \A c \in Calls :
    (algorithm[c] = "classic" /\ settings[c] = RESET_SETTINGS) =>
      \A k \in Stored(c) : \A ch \in 1..3 :
        Abs(OutRGB(c, k)[ch] - InRGB(c, k)[ch]) <= 1

\* A white pixel over a black base layer, processed neutrally.
C3_Witness ==
  \E c \in Calls :
    /\ pc[c] = "done" /\ algorithm[c] = "classic" /\ settings[c] = RESET_SETTINGS
    /\ InRGB(c, 1) = << 255, 255, 255 >> /\ BaseRGB(c, 1) = << 0, 0, 0 >>
    /\ OutRGB(c, 1) = << 255, 255, 255 >>

\* C4: holding the image and the other five controls fixed, for shadows
\* values 0 <= s1 <= s2 <= 100 and every pixel whose luminance is below 0.25,
\* the output luminance with shadows = s2 is not lower than with shadows = s1.
C4_ShadowsMonotone ==
  \A c1 \in Calls : \A c2 \in Calls :
    ( /\ pc[c1] = "done" /\ pc[c2] = "done"
      /\ algorithm[c1] = algorithm[c2]
      /\ originalData[c1] = originalData[c2] /\ baseData[c1] = baseData[c2]
      /\ \A control \in Controls \ {"shadows"} :
           settings[c1][control] = settings[c2][control]
      /\ 0 <= settings[c1].shadows /\ settings[c1].shadows <= settings[c2].shadows
      /\ settings[c2].shadows <= 100 ) =>
      \A k \in Stored(c1) :
        ByteLuminance(InRGB(c1, k)) < 250000 =>
          ByteLuminance(OutRGB(c2, k)) >= ByteLuminance(OutRGB(c1, k))

\* C5: two runs on the same image, the same tone parameters and the same
\* variant produce byte-identical output buffers, however their steps and
\* those of other runs interleave.
C5_SameInputsSameOutput ==
  \A c1 \in Calls : \A c2 \in Calls :
    ( /\ pc[c1] = "done" /\ pc[c2] = "done"
      /\ settings[c1] = settings[c2] /\ algorithm[c1] = algorithm[c2]
      /\ originalData[c1] = originalData[c2] /\ baseData[c1] = baseData[c2] ) =>
      outputData[c1] = outputData[c2]

\* Two finished runs of the review variant (the one with the scratch record)
\* on the same inputs, with a visible result.
C5_Witness ==
  /\ pc[1] = "done" /\ pc[2] = "done"
  /\ algorithm[1] = "review" /\ algorithm[2] = "review"
  /\ settings[1] = DEFAULT_SETTINGS /\ settings[2] = DEFAULT_SETTINGS
  /\ outputData[1] = outputData[2]
  /\ outputData[1][5] > 40

\* C6: for every identifier other than 'classic' and 'review',
\* getToneAlgorithm returns the classic implementation: never a value that is
\* no algorithm, and the call never raises an error.
C6_FallbackToClassic ==
  \A c \in Calls :
    (pc[c] # "start" /\ algorithm[c] \notin Variants) =>
      /\ algorithmImpl[c] = classicAlgorithm
      /\ pc[c] # "error"

ExampleDone(c) ==
  /\ pc[c] = "done" /\ settings[c] = DEFAULT_SETTINGS /\ algorithm[c] \in Variants
  /\ originalData[c] = Flatten(Example2x2)

\* The base layer is one colour throughout, or the image itself.
FlatOrSameBase(c) ==
  \/ baseData[c] = originalData[c]
  \/ \E v \in 0..255 : baseData[c] = Flatten(Uniform(v))

GrayShift(c) == Abs(OutRGB(c, 2)[1] - 128)

BlackShift(c, k) == Abs(OutRGB(c, k)[1] - 0)

CrushSettings(st) == st.blacks < 0 /\ OnlyControl(st, "blacks")

\* Pixel k lies in a near-black region: it and its base-layer pixel are the
\* same colour, of luminance above 0 and below 0.22.
NearBlack(c, k) ==
  /\ InRGB(c, k) = BaseRGB(c, k)
  /\ ByteLuminance(InRGB(c, k)) > 0
  /\ ByteLuminance(InRGB(c, k)) < 220000

C10_EpsilonFloor ==
  \A c \in Calls :
    algorithm[c] \in Variants =>
      /\ pc[c] # "error"
      /\ pc[c] \in {"hook", "store"} =>
           /\ px[c].y_base_lin >= 100
           /\ px[c].liftRatio >= 0
           /\ \A v \in {px[c].r_out_lin, px[c].g_out_lin, px[c].b_out_lin} :
                v >= 0 /\ v <= 65 * ONE

\* A pixel over a black base layer: the floor is the denominator and the
\* ratio is beyond its cap of 64.
C10_Witness ==
  \E c \in Calls :
    /\ pc[c] = "store" /\ settings[c] = DEFAULT_SETTINGS
    /\ BaseRGB(c, Current(c)) = << 0, 0, 0 >>
    /\ px[c].y_base_lin = 100
    /\ px[c].liftRatio > 64 * ONE

\* The mode and the number of files held agree.
ModeMatchesFiles ==
  /\ mode = "EDITOR" => Len(files) = 1
  /\ mode = "BATCH_PROCESSING" => Len(files) >= 2
  /\ mode = "IDLE" => Len(files) = 0

\* A call of handleFilesDropped resumes with an empty normalized list.
EmptyDropResumes ==
  /\ pendingDrops' # pendingDrops
  /\ pendingDrops' \subseteq pendingDrops
  /\ normalizedFiles' = << >>

\* C11: after any sequence of drops and resets the mode is EDITOR only with
\* exactly one file held, BATCH_PROCESSING only with two or more, IDLE only
\* with none; and a drop whose normalized list is empty changes neither the
\* files nor the mode.
C11_ModeFollowsFiles ==
  /\ []ModeMatchesFiles
  /\ [][EmptyDropResumes => (files' = files /\ mode' = mode)]_vars

\* Two files are held in batch mode after a second drop whose HEIC
\* conversions all failed.
C11_Witness ==
  /\ mode = "BATCH_PROCESSING" /\ Len(files) = 2
  /\ dropCounterRef = 2 /\ pendingDrops = {}
  /\ normalizedFiles = << >>

\* The stages of a finished evaluation of applyToneMap, by name.
StageNames == [k \in DOMAIN toneTrace |-> toneTrace[k].stage]

\* C12: applyToneMap applies its stages in one order, whatever the parameters
\* and the variant: exposure, shadows, highlights, whites, blacks, contrast.
\* Each stage works on the value the stage before it left, exposure on the
\* base luminance, and what is returned is what contrast left (never below
\* 0): the six functions composed in that order.
C12_StageOrder ==
  tonePc = "done" =>
    /\ StageNames = << "exposure", "shadows", "highlights", "whites", "blacks", "contrast" >>
    /\ toneTrace[1].before = toneIn
    /\ \A k \in 2..6 : toneTrace[k].before = toneTrace[k - 1].after
    /\ \A l \in {1, 2} :
         toneY[l] = applyToneMap(toneIn[l], ToneParams(toneSettings), toneVariant)

\* Exposure and contrast both away from 0, where the order of the two shows.
C12_Witness ==
  /\ tonePc = "done"
  /\ toneSettings.exposure # 0
  /\ toneSettings.contrast # 0
  /\ toneTrace[6].stage = "contrast"
  /\ toneTrace[6].before # toneTrace[6].after

\* C13: a stage whose control is 0 returns its input unchanged, for every
\* input luminance (also above 1) and whatever the other five controls are.
C13_ZeroControlIsIdentity ==
  \A k \in DOMAIN toneTrace :
    toneSettings[toneTrace[k].stage] = 0 => toneTrace[k].after = toneTrace[k].before

\* Whites at 0 given a luminance above 1 (exposure raised it).
C13_Witness ==
  /\ tonePc = "done"
  /\ toneSettings.whites = 0
  /\ toneSettings.exposure > 0
  /\ toneTrace[4].stage = "whites"
  /\ toneTrace[4].before[2] > ONE
  /\ toneTrace[4].after = toneTrace[4].before

\* C17: with W > 0 applyWhites never returns less than its input, for every
\* input luminance y >= 0 (also above 1), and for y = 1 it returns more
\* than 1.
C17_WhitesNeverDarken ==
  \A k \in DOMAIN toneTrace :
    (toneTrace[k].stage = "whites" /\ toneSettings.whites > 0) =>
      \A l \in {1, 2} :
        /\ toneTrace[k].after[l] >= toneTrace[k].before[l]
        /\ toneTrace[k].before[l] = ONE => toneTrace[k].after[l] > ONE

\* C18: with B # 0 applyBlacks returns every input luminance of 0.22 or more
\* (also above 1) unchanged.
C18_BlacksLeaveMidtones ==
  \A k \in DOMAIN toneTrace :
    (toneTrace[k].stage = "blacks" /\ toneSettings.blacks # 0) =>
      \A l \in {1, 2} :
        toneTrace[k].before[l] >= 220000 => toneTrace[k].after[l] = toneTrace[k].before[l]

\* C19: for fixed parameters and variant the tone map is non-decreasing in
\* the base luminance: of two base luminances the brighter never gets the
\* darker target.
C19_ToneMapMonotone ==
  (tonePc = "done" /\ toneIn[1] <= toneIn[2]) => toneY[1] <= toneY[2]

\* C14: with the review variant and all six controls at 0, for every image
\* and every base layer (also where the base is brighter than the pixel),
\* postReconstruct leaves the reconstructed pixel as it was, and each output
\* R, G, B value differs from the input value by at most 1.
C14_ReviewNeutralIdentity ==
  \A c \in Calls :
    (algorithm[c] = "review" /\ settings[c] = RESET_SETTINGS) =>
      /\ pc[c] = "store" =>
           postState[PostStateRef(c)] =
             [r |-> px[c].r_out_lin, g |-> px[c].g_out_lin, b |-> px[c].b_out_lin]
      /\ \A k \in Stored(c) : \A ch \in 1..3 :
           Abs(OutRGB(c, k)[ch] - InRGB(c, k)[ch]) <= 1

\* The sum of src over the window of radius around column x of the row that
\* starts at row, columns clamped to the row.
WindowRow(src, width, radius, row, x) ==
  SumFrom([dx \in -radius..radius |-> src[row + Min(width - 1, Max(0, x + dx)) + 1]],
          -radius, radius)

\* The sum of src over the window around (x, y), rows and columns clamped.
WindowSum(src, width, height, radius, x, y) ==
  SumFrom([dy \in -radius..radius |->
             WindowRow(src, width, radius, Min(height - 1, Max(0, y + dy)) * width, x)],
          -radius, radius)

\* The same sum, each row's part rounded as tmp holds it.
WindowSumOfRounded(src, width, height, radius, x, y) ==
  SumFrom([dy \in -radius..radius |->
             Fround(WindowRow(src, width, radius, Min(height - 1, Max(0, y + dy)) * width, x), 1)],
          -radius, radius)

FlatInput == \A k \in DOMAIN gfInput : gfInput[k] = gfInput[1]

\* The spacing of the Float32Array values around v.
Ulp(v) == Quantum(Abs(v), 1, 1)

PixelPass(c) == pc[c] \in {"loop", "hook", "store", "error", "done"}

\* C20: in a call of processImage the base layer is there for the whole image
\* before the per-pixel pass works on its first pixel, and the per-pixel pass
\* only reads the original pixel data and the base layer: no step of it
\* changes either.
C20_BaseBeforePixels ==
  /\ [](\A c \in Calls :
          PixelPass(c) =>
            /\ originalData[c] = img[c].original
            /\ baseData[c] = img[c].base
            /\ Len(baseData[c]) = Len(originalData[c]))
  /\ [][\A c \in Calls :
          PixelPass(c) =>
            (originalData'[c] = originalData[c] /\ baseData'[c] = baseData[c])]_vars

\* Half-way through the pass over the 2x2 example on a base that differs.
C20_Witness ==
  \E c \in Calls :
    /\ pc[c] = "store"
    /\ i[c] = 8
    /\ Len(originalData[c]) = 16
    /\ baseData[c] # originalData[c]
    /\ Len(baseData[c]) = 16

\* The call that was made last.
LastOp == IF hLog = << >> THEN "none" ELSE hLog[Len(hLog)].op

\* C21: after any sequence of commit, undo, redo and reset the history list
\* is non-empty and 0 <= index <= length - 1; canUndo holds exactly when
\* index > 0 and canRedo exactly when index < length - 1; undo at index 0 and
\* redo at the last index return null and change nothing.
C21_IndexInHistory ==
  /\ [](/\ Len(hHistory) >= 1
        /\ 0 <= hIndex /\ hIndex <= Len(hHistory) - 1
        /\ canUndo <=> hIndex > 0
        /\ canRedo <=> hIndex < Len(hHistory) - 1)
  /\ [][ /\ (LastOp' = "undo" /\ hLog' # hLog /\ hIndex = 0) =>
              (hReturned' = "null" /\ hIndex' = hIndex /\ hHistory' = hHistory /\ hState' = hState)
         /\ (LastOp' = "redo" /\ hLog' # hLog /\ hIndex = Len(hHistory) - 1) =>
              (hReturned' = "null" /\ hIndex' = hIndex /\ hHistory' = hHistory /\ hState' = hState)
       ]_vars

\* Undo at index 0 after an undo that went back to it, with entries to redo.
C21_Witness ==
  /\ Len(hLog) = 2
  /\ hLog[1].op = "undo" /\ hLog[1].index = 1
  /\ hLog[2].op = "undo" /\ hLog[2].index = 0
  /\ hReturned = "null"
  /\ hIndex = 0
  /\ Len(hHistory) = 3

\* C22: a commit whose value equals, by JSON equality, the history entry at
\* the current index leaves the history list and the index unchanged;
\* committing the same settings again adds no entry.
C22_EqualCommitAddsNothing ==
  [][ (LastOp' = "commit" /\ defaultIsEqual(At(hHistory, hIndex), hState)) =>
        (hHistory' = hHistory /\ hIndex' = hIndex) ]_vars

\* Pointer-up committed new settings at index 1, blur committed them again.
C22_Witness ==
  /\ Len(hLog) = 2
  /\ hLog[1].op = "commit" /\ hLog[1].index = 1
  /\ hLog[2].op = "commit" /\ hLog[2].index = 2
  /\ hLog[2].state = hLog[1].state
  /\ hIndex = 2
  /\ Len(hHistory) = 3

\* C23: a commit of a value different from the current entry, or a reset, at
\* index i discards every entry after position i, appends the new value as the
\* last entry and sets the index to it; afterwards canRedo is false and the
\* entries at positions 0..i are as before.
C23_PushTruncates ==
  [][ /\ (LastOp' = "commit" /\ ~defaultIsEqual(At(hHistory, hIndex), hState)) =>
           /\ Len(hHistory') = hIndex + 2
           /\ hIndex' = hIndex + 1
           /\ hHistory'[hIndex + 2] = hState
           /\ SubSeq(hHistory', 1, hIndex + 1) = SubSeq(hHistory, 1, hIndex + 1)
           /\ ~canRedo'
      /\ (LastOp' = "reset" /\ hLog' # hLog) =>
           /\ Len(hHistory') = hIndex + 2
           /\ hIndex' = hIndex + 1
           /\ hHistory'[hIndex + 2] = ObjectOf(RESET_SETTINGS)
           /\ SubSeq(hHistory', 1, hIndex + 1) = SubSeq(hHistory, 1, hIndex + 1)
           /\ ~canRedo'
    ]_vars

\* A reset at index 0 after an undo: the undone entry is gone.
C23_Witness ==
  /\ Len(hLog) = 2
  /\ hLog[1].op = "undo" /\ hLog[1].index = 1
  /\ hLog[2].op = "reset" /\ hLog[2].index = 0
  /\ hIndex = 1
  /\ Len(hHistory) = 2
  /\ hHistory[2] = ObjectOf(RESET_SETTINGS)

\* C24: undo and redo never change the history list, and they are inverse:
\* whenever canUndo holds, undo followed by redo restores the same index and
\* the same current settings; whenever canRedo holds, redo followed by undo
\* does the same.  Stated on the record of the last two calls: the index and
\* the settings after the pair are those before its first call.
C24_UndoRedoInverse ==
  (/\ Len(hLog) = 2
   /\ \/ hLog[1].op = "undo" /\ hLog[2].op = "redo" /\ hLog[1].index > 0
      \/ hLog[1].op = "redo" /\ hLog[2].op = "undo" /\ hLog[2].index = hLog[1].index + 1)
    => (hIndex = hLog[1].index /\ hState = hLog[1].state)

\* The for...of loop of processFiles has ended.
LoopEnded == batchPc \in {"loopEnd", "zip", "done"}

\* C25: the batch processor takes the files one at a time in list order, and
\* a failure to load or process a file is recorded without stopping the loop:
\* when the loop ends every file has been attempted exactly once, successes
\* plus recorded failures equal the number of files, and progress has only
\* increased and is 100.
C25_EveryFileOnce ==
  /\ [](/\ attempted = [k \in 1..Len(attempted) |-> k]
        /\ Len(attempted) <= Len(batchFiles)
        /\ Len(attempted) <= completed + 1
        /\ LoopEnded =>
             /\ Len(attempted) = Len(batchFiles)
             /\ successCount + Len(failures) = Len(batchFiles)
             /\ progress = 100)
  /\ [][progress' >= progress]_vars

\* The loop ended after two files that failed and a later one that succeeded.
C25_Witness ==
  /\ LoopEnded
  /\ batchFiles[1] = "loadFails"
  /\ batchFiles[2] = "processFails"
  /\ successCount >= 1
  /\ Len(failures) = 2

\* C26: the batch status starts at 'processing' and moves only
\* processing -> zipping -> complete or to 'error'; it is 'complete' only if
\* at least one file succeeded and the ZIP blob is set; when no file succeeded
\* it becomes 'error' without ever being 'zipping'; once 'complete' or 'error'
\* it never changes again.
C26_StatusMoves ==
  /\ statusTrace \in { << "processing" >>,
                       << "processing", "zipping" >>,
                       << "processing", "zipping", "complete" >>,
                       << "processing", "zipping", "error" >>,
                       << "processing", "error" >> }
  /\ status = statusTrace[Len(statusTrace)]
  /\ status = "complete" => (successCount >= 1 /\ zipBlob # "null")
  /\ (batchPc = "done" /\ successCount = 0) => statusTrace = << "processing", "error" >>

\* The batch completed although one of its files failed.
C26_Witness ==
  /\ statusTrace = << "processing", "zipping", "complete" >>
  /\ Len(failedFiles) = 1
  /\ zipBlob = "blob"

\* C27: if handleFilesDropped is called again while an earlier call is still
\* normalizing its files, the earlier call, whenever it completes, changes
\* neither the file list nor the mode and shows no notice; only the most
\* recently started call can apply its result.
C27_StaleDropIsSilent ==
  [][\A drop \in pendingDrops \ pendingDrops' :
       drop.dropId # dropCounterRef =>
         /\ files' = files /\ mode' = mode
         /\ dropNotice' = dropNotice /\ noticeTimerRef' = noticeTimerRef]_vars

\* The first of two calls has completed with one file converted and one
\* conversion failed while the second is still normalizing: no file is held
\* and no notice was ever shown.
C27_Witness ==
  /\ dropCounterRef = 2
  /\ \E drop \in pendingDrops : drop.dropId = 2
  /\ \A drop \in pendingDrops : drop.dropId = 2
  /\ normalizedFiles = << "png" >>
  /\ failedConversions = << "heic" >>
  /\ files = << >> /\ mode = "IDLE"
  /\ dropNotice = NoNotice /\ noticeTimerRef = 0

====
